---- MODULE Spec2Model ----
(***************************************************************************)
(* The haptic server's stimulus engine (haptic-server/src/engine.rs) and   *)
(* the command bridge that feeds it (haptic-server/src/ipc.rs).            *)
(*                                                                         *)
(* Numbers.  An f32 is a record [fin, v].  A finite value holds v in       *)
(* units of 1/Scale (binary fixed point, products and quotients rounded    *)
(* toward zero where the f32 rounds to nearest).  A non-finite value has   *)
(* fin = FALSE and v = 0 for NaN, v = 1 for +inf, v = -1 for -inf, with    *)
(* the IEEE-754 rules for how they combine.  Time-like quantities are kept *)
(* exact: env_time counts sample periods (env_time += dt is +1) and phase  *)
(* counts units of 1/(4*sample_rate), in which frequency*dt is the         *)
(* frequency in quarter hertz.                                             *)
(*                                                                         *)
(* The variables wave_owner, standing_owner, wave_off, standing_off,       *)
(* last_drained and notes_sent, and the src field of a queued command, are *)
(* history variables: the code keeps none of them, they only record what   *)
(* the properties below talk about.  The variable pc is the position of    *)
(* the audio thread, whose process call runs while the producers send.     *)
(* The variable run is the environment of one behaviour: which commands    *)
(* its producers send, and how many.                                       *)
(*                                                                         *)
(* The server around the engine (haptic-server/src/main.rs, ipc.rs): the   *)
(* shutdown flag, the IPC thread's listen loop with its client list, the   *)
(* main thread, and the clients' ends of the socket.  The wire carries one *)
(* unit per field of a command's bincode encoding (the enum tag, the       *)
(* timestamp, each u8 and each f32), and a read may end between any two    *)
(* units.  The variable last_read is a history variable: what each         *)
(* client's read returned in the last turn of the listen loop.             *)
(*                                                                         *)
(* The device layer (haptic-server/src/audio.rs): engine_lock is the       *)
(* holder of the Mutex the engine is wrapped in, and data is the frame the *)
(* output callback last wrote to the device buffer, one value per device   *)
(* channel, empty until the first frame.                                   *)
(***************************************************************************)
EXTENDS Integers, Sequences, FiniteSets, TLC

VARIABLES
    wave_pool,       \* StimulusEngine.wave_pool: [stimuli, active_mask]
    standing_pool,   \* StimulusEngine.standing_pool
    command_queue,   \* the crossbeam channel's queued EngineCommands
    output,          \* the caller's output frame after the last process call
    pc,              \* the audio callback: "idle" between calls, "process" inside one
    wave_owner,      \* history: the NoteOn (note, channel) that allocated each slot
    standing_owner,
    wave_off,        \* history: a NoteOff matching the slot's owner was drained
    standing_off,
    last_drained,    \* history: type of the last command drained in this call
    notes_sent,      \* history: NoteOn commands sent so far
    run,             \* the producers of this behaviour and what they send
    running,         \* main's Arc<AtomicBool>
    ipc_pc,          \* the IPC thread: "start", "bind", "loop", "done"
    main_pc,         \* the main thread: "audio", "cleanup", "join", "exit"
    socket_file,     \* whether a file exists at SOCKET_PATH
    clients,         \* listen_loop's Vec of accepted streams, as client ids
    conn,            \* per client: its end's state and the units in flight
    last_read,       \* history: what each client's last read returned
    engine_lock,     \* who holds the Mutex around the engine: "none", "audio"
    data             \* the frame the callback last wrote to the device buffer

vars == <<wave_pool, standing_pool, command_queue, output, pc, wave_owner,
          standing_owner, wave_off, standing_off, last_drained, notes_sent, run,
          running, ipc_pc, main_pc, socket_file, clients, conn, last_read,
          engine_lock, data>>

\* the state of the server outside the engine
ipc_vars == <<running, ipc_pc, main_pc, socket_file, clients, conn, last_read>>

\* the state of the engine other than its command queue
engine_vars == <<wave_pool, standing_pool, output, pc, wave_owner, standing_owner,
                 wave_off, standing_off, last_drained, notes_sent, run,
                   engine_lock, data>>

-----------------------------------------------------------------------------
(* Program constants *)

TRANSDUCER_COUNT == 32
MAX_WAVE_STIMULI == 8
MAX_STANDING_STIMULI == 4
MAX_DELAY_SAMPLES == 4800

\* usize::MAX % MAX_DELAY_SAMPLES: what `f32::INFINITY as usize % size` yields
USIZE_MAX_MOD_SIZE == 1215

\* the device's sample rate handed to every process call
SampleRate == 22

(* Bounds of the model *)

MaxQueue == 1        \* commands queued and not yet drained, engine runs
MaxBacklog == 2      \* commands queued and not yet drained, bridge runs
MaxNoteOns == 2      \* NoteOn commands sent in one run
MaxFrames == 3       \* samples written to a propagating voice's delay lines
MaxBridgeSends == 257  \* commands queued in a run that never drains

Scale == 2^10

Transducers == 0 .. (TRANSDUCER_COUNT - 1)
WaveSlots == 0 .. (MAX_WAVE_STIMULI - 1)
StandingSlots == 0 .. (MAX_STANDING_STIMULI - 1)

-----------------------------------------------------------------------------
(* Let(v, In) is LET b == v IN In(b), with v evaluated once, to a value,   *)
(* before In is: a local `let` of the code whose value is used repeatedly  *)

Force(v) == CHOOSE w \in {v} : w = w

Let(v, In(_)) == CHOOSE r \in {In(b) : b \in {Force(v)}} : TRUE

-----------------------------------------------------------------------------
(* f32 arithmetic *)

Num(x) == [fin |-> TRUE, v |-> x]
NaN == [fin |-> FALSE, v |-> 0]
PosInf == [fin |-> FALSE, v |-> 1]
NegInf == [fin |-> FALSE, v |-> -1]
Zero == Num(0)
One == Num(Scale)

IsNaN(a) == ~a.fin /\ a.v = 0
Sgn(a) == IF a.v > 0 THEN 1 ELSE IF a.v < 0 THEN -1 ELSE 0

\* integer quotient rounded toward zero, d # 0
Quot(n, d) ==
    LET an == IF n < 0 THEN -n ELSE n
        ad == IF d < 0 THEN -d ELSE d
        q == an \div ad
    IN IF (n < 0) = (d < 0) THEN q ELSE -q

FNeg(a) == [fin |-> a.fin, v |-> -a.v]

FAdd(a, b) ==
    IF a.fin /\ b.fin THEN Num(a.v + b.v)
    ELSE IF IsNaN(a) \/ IsNaN(b) THEN NaN
    ELSE IF a.fin THEN b
    ELSE IF b.fin THEN a
    ELSE IF a.v = b.v THEN a ELSE NaN

FSub(a, b) == FAdd(a, FNeg(b))

FMul(a, b) ==
    IF a.fin /\ b.fin THEN Num(Quot(a.v * b.v, Scale))
    ELSE IF IsNaN(a) \/ IsNaN(b) \/ Sgn(a) = 0 \/ Sgn(b) = 0 THEN NaN
    ELSE [fin |-> FALSE, v |-> Sgn(a) * Sgn(b)]

FDiv(a, b) ==
    IF a.fin /\ b.fin
    THEN IF b.v # 0 THEN Num(Quot(a.v * Scale, b.v))
         ELSE IF a.v = 0 THEN NaN ELSE [fin |-> FALSE, v |-> Sgn(a)]
    ELSE IF IsNaN(a) \/ IsNaN(b) THEN NaN
    ELSE IF ~a.fin /\ ~b.fin THEN NaN
    ELSE IF ~a.fin THEN [fin |-> FALSE, v |-> IF b.v < 0 THEN -a.v ELSE a.v]
    ELSE Zero

\* a < b; false when either is NaN
FLt(a, b) ==
    IF IsNaN(a) \/ IsNaN(b) THEN FALSE
    ELSE IF a.fin /\ b.fin THEN a.v < b.v
    ELSE IF ~a.fin /\ ~b.fin THEN a.v < b.v
    ELSE IF ~a.fin THEN a.v < 0
    ELSE b.v > 0

FLe(a, b) == ~IsNaN(a) /\ ~IsNaN(b) /\ ~FLt(b, a)

\* f32::min and f32::max return the other operand when one is NaN
FMin(a, b) == IF IsNaN(a) THEN b ELSE IF IsNaN(b) THEN a ELSE IF FLt(b, a) THEN b ELSE a
FMax(a, b) == IF IsNaN(a) THEN b ELSE IF IsNaN(b) THEN a ELSE IF FLt(a, b) THEN b ELSE a

\* f32::clamp: NaN stays NaN
FClamp(a, lo, hi) ==
    IF IsNaN(a) THEN NaN
    ELSE IF FLt(a, lo) THEN lo
    ELSE IF FLt(hi, a) THEN hi
    ELSE a

\* floor, and fract (self - self.trunc()), of a fixed-point value
FFloor(a) ==
    IF ~a.fin THEN a
    ELSE Num((IF a.v >= 0 THEN a.v \div Scale ELSE -((-a.v + Scale - 1) \div Scale)) * Scale)

FFract(a) == IF ~a.fin THEN NaN ELSE Num(a.v - Quot(a.v, Scale) * Scale)

\* `x as usize % size`: the cast truncates, saturates, and turns NaN into 0;
\* +inf saturates to usize::MAX, of which only the remainder is used
AsUsizeMod(a, size) ==
    IF a.fin THEN (IF a.v <= 0 THEN 0 ELSE (a.v \div Scale) % size)
    ELSE IF a.v > 0 THEN USIZE_MAX_MOD_SIZE ELSE 0

\* `x as usize` of a finite or NaN value
AsUsize(a) == IF a.fin /\ a.v > 0 THEN a.v \div Scale ELSE 0

\* `u8 as f32`, `usize as f32`
AsF32(n) == Num(n * Scale)

RECURSIVE ISqrtIter(_, _)
ISqrtIter(n, r) ==
    Let((r + n \div r) \div 2, LAMBDA r2 :
        IF r2 >= r THEN r ELSE ISqrtIter(n, r2))

\* floor of the square root of a natural number (Newton's iteration)
ISqrt(n) == IF n <= 0 THEN 0 ELSE ISqrtIter(n, n)

\* (dx * dx + dy * dy).sqrt(), the squares kept at full precision
Hypot(dx, dy) ==
    IF IsNaN(dx) \/ IsNaN(dy) THEN NaN
    ELSE IF ~dx.fin \/ ~dy.fin THEN PosInf
    ELSE Let(dx.v * dx.v + dy.v * dy.v, LAMBDA n : Num(ISqrt(n)))

\* sin(2*pi*p/den) for a phase of p/den turns, by Bhaskara's rational
\* approximation 16u(1-u)/(5-4u(1-u)) of sin(pi*u), exact at 0, 1/4, 1/2 turns
SinTurns(p, den) ==
    LET q == p % den
        h == IF 2 * q < den THEN 2 * q ELSE 2 * q - den   \* u = h/den
        w == h * (den - h)                                \* u(1-u) = w/den^2
        s == Quot(16 * w * Scale, 5 * den * den - 4 * w)
    IN Num(IF 2 * q < den THEN s ELSE -s)

-----------------------------------------------------------------------------
(* DelayLine *)

\* A buffer holds MAX_DELAY_SAMPLES samples; only its non-zero samples are
\* stored, an index outside the domain reads as 0.0
EmptyBuffer == [i \in {} |-> Zero]

BufferAt(buffer, i) == IF i \in DOMAIN buffer THEN buffer[i] ELSE Zero

BufferPut(buffer, i, x) ==
    IF x = Zero
    THEN [j \in (DOMAIN buffer) \ {i} |-> buffer[j]]
    ELSE [j \in (DOMAIN buffer) \cup {i} |-> IF j = i THEN x ELSE buffer[j]]

DelayLineNew == [buffer |-> EmptyBuffer, write_pos |-> Zero, size |-> MAX_DELAY_SAMPLES]

\* write_and_read that reads the delayed sample before it stores the input
DelayReadThenWrite(line, input, delay_samples) ==
    Let(FSub(line.write_pos, delay_samples), LAMBDA rp :
    Let(IF FLt(rp, Zero) THEN FAdd(rp, AsF32(line.size)) ELSE rp, LAMBDA read_pos :
    Let(AsUsizeMod(FFloor(read_pos), line.size), LAMBDA idx0 :
    Let((idx0 + 1) % line.size, LAMBDA idx1 :
    Let(FFract(read_pos), LAMBDA frac :
    Let(FMul(BufferAt(line.buffer, idx0), FSub(One, frac)), LAMBDA head :
    Let(FMul(BufferAt(line.buffer, idx1), frac), LAMBDA tail :
        [line |-> [line EXCEPT !.buffer = BufferPut(line.buffer, AsUsize(line.write_pos), input),
                     !.write_pos = Num((line.write_pos.v + Scale) % (line.size * Scale))],
         out |-> FAdd(head, tail)])))))))

\* write_and_read whose write cursor is advanced without the remainder
DelayWriteAndReadNoWrap(line, input, delay_samples) ==
    Let(BufferPut(line.buffer, AsUsize(line.write_pos), input), LAMBDA buffer :
    Let(FSub(line.write_pos, delay_samples), LAMBDA rp :
    Let(IF FLt(rp, Zero) THEN FAdd(rp, AsF32(line.size)) ELSE rp, LAMBDA read_pos :
    Let(AsUsizeMod(FFloor(read_pos), line.size), LAMBDA idx0 :
    Let((idx0 + 1) % line.size, LAMBDA idx1 :
    Let(FFract(read_pos), LAMBDA frac :
    Let(FMul(BufferAt(buffer, idx0), FSub(One, frac)), LAMBDA head :
    Let(FMul(BufferAt(buffer, idx1), frac), LAMBDA tail :
        [line |-> [line EXCEPT !.buffer = buffer,
                     !.write_pos = Num(line.write_pos.v + Scale)],
         out |-> FAdd(head, tail)]))))))))

\* DelayLine::write_and_read: the line after the call and the sample returned
DelayWriteAndRead(line, input, delay_samples) ==
    Let(BufferPut(line.buffer, AsUsize(line.write_pos), input), LAMBDA buffer :
    Let(FSub(line.write_pos, delay_samples), LAMBDA rp :
    Let(IF FLt(rp, Zero) THEN FAdd(rp, AsF32(line.size)) ELSE rp, LAMBDA read_pos :
    Let(AsUsizeMod(FFloor(read_pos), line.size), LAMBDA idx0 :
    Let((idx0 + 1) % line.size, LAMBDA idx1 :
    Let(FFract(read_pos), LAMBDA frac :
    Let(FMul(BufferAt(buffer, idx0), FSub(One, frac)), LAMBDA head :
    Let(FMul(BufferAt(buffer, idx1), frac), LAMBDA tail :
        [line |-> [line EXCEPT
                     !.buffer = buffer,
                     !.write_pos = Num((line.write_pos.v + Scale) % (line.size * Scale))],
         out |-> FAdd(head, tail)]))))))))

DelayLineReset(line) == [line EXCEPT !.buffer = EmptyBuffer, !.write_pos = Zero]

-----------------------------------------------------------------------------
(* Protocol and engine data *)

\* MpeData::default()
MpeDefault == [pressure |-> Zero, pitch_bend |-> Zero, timbre |-> Num(Scale \div 2)]

\* ProcessContext: dt is one sample period, the unit of env_time
PhaseDen == 4 * SampleRate

\* default_grid_layout: 4 rows of 8, 5 cm apart
TransducerPosition(i) ==
    <<FMul(AsF32(i % 8), Num((5 * Scale) \div 100)),
      FMul(AsF32(i \div 8), Num((5 * Scale) \div 100))>>

\* 2^(s/12) for s = 0..11, in units of 1/Scale
SemitoneRatio == <<1024, 1085, 1149, 1218, 1290, 1367, 1448, 1534, 1625, 1722, 1825, 1933>>

\* 440.0 * 2^((note - 69) / 12), in quarter hertz; exact for the notes A
Frequency(note) ==
    LET d == note - 69
        s == d % 12
        k == (d - s) \div 12
    IN IF k >= 0 THEN (1760 * SemitoneRatio[s + 1] * 2^k) \div Scale
       ELSE (1760 * SemitoneRatio[s + 1]) \div (Scale * 2^(-k))

\* velocity as f32 / 127.0
Amplitude(velocity) == FDiv(AsF32(velocity), AsF32(127))

\* 20.0 + (velocity as f32 / 127.0) * 480.0
WaveSpeedOf(velocity) == FAdd(AsF32(20), FMul(FDiv(AsF32(velocity), AsF32(127)), AsF32(480)))

-----------------------------------------------------------------------------
(* The envelope, shared by both kinds of voice *)

\* EnvelopeStep whose attack, on reaching full level, starts the release
EnvelopeStepAutoRelease(s) ==
    IF s.env_state = "Attack"
    THEN Let(s.env_time + 1, LAMBDA t :
         Let(FMin(Num(Quot(10 * t * Scale, SampleRate)), One), LAMBDA level :
             [s EXCEPT !.env_time = t, !.env_level = level,
                       !.env_state = IF FLe(One, level) THEN "Release" ELSE "Attack"]))
    ELSE IF s.env_state = "Sustain"
    THEN [s EXCEPT !.env_level = One]
    ELSE Let(s.env_time + 1, LAMBDA t :
         Let(FMax(FSub(One, Num(Quot(2 * t * Scale, SampleRate))), Zero), LAMBDA level :
             [s EXCEPT !.env_time = t, !.env_level = level,
                       !.env_state = IF FLe(level, Zero) THEN "Idle" ELSE "Release"]))

\* the match on env_state at the top of process, for a voice that is not Idle
EnvelopeStep(s) ==
    IF s.env_state = "Attack"
    THEN Let(s.env_time + 1, LAMBDA t :
         Let(FMin(Num(Quot(10 * t * Scale, SampleRate)), One), LAMBDA level :
             [s EXCEPT !.env_time = t, !.env_level = level,
                       !.env_state = IF FLe(One, level) THEN "Sustain" ELSE "Attack"]))
    ELSE IF s.env_state = "Sustain"
    THEN [s EXCEPT !.env_level = One]
    ELSE Let(s.env_time + 1, LAMBDA t :
         Let(FMax(FSub(One, Num(Quot(2 * t * Scale, SampleRate))), Zero), LAMBDA level :
             [s EXCEPT !.env_time = t, !.env_level = level,
                       !.env_state = IF FLe(level, Zero) THEN "Idle" ELSE "Release"]))

\* sin(phase * 2 pi) * amplitude * env_level * mpe.pressure
SourceSignal(s) ==
    Let(SinTurns(s.phase, PhaseDen), LAMBDA sine :
    Let(FMul(sine, s.amplitude), LAMBDA scaled :
    Let(FMul(scaled, s.env_level), LAMBDA shaped :
        FMul(shaped, s.mpe.pressure))))

\* phase += frequency * dt; if phase >= 1.0 { phase -= 1.0 }
PhaseStep(s) ==
    LET p == s.phase + s.frequency
    IN [s EXCEPT !.phase = IF p >= PhaseDen THEN p - PhaseDen ELSE p]

SilentFrame == [i \in Transducers |-> Zero]

-----------------------------------------------------------------------------
(* WaveStimulus *)

\* #[derive(Default)]
WaveStimulusDefault ==
    [delay_lines |-> [i \in Transducers |-> DelayLineNew],
     frequency |-> 0, phase |-> 0, amplitude |-> Zero,
     source_pos |-> <<Zero, Zero>>, wave_speed |-> Zero,
     env_state |-> "Idle", env_level |-> Zero, env_time |-> 0,
     mpe |-> MpeDefault]

\* one transducer's pass of the loop over ctx.transducer_positions
WaveTransducer(s, source, i) ==
    Let(TransducerPosition(i), LAMBDA pos :
    Let(FSub(pos[1], s.source_pos[1]), LAMBDA dx :
    Let(FSub(pos[2], s.source_pos[2]), LAMBDA dy :
    Let(Hypot(dx, dy), LAMBDA distance :
    Let(FDiv(distance, FMax(s.wave_speed, One)), LAMBDA delay_time :
    Let(FMul(delay_time, AsF32(SampleRate)), LAMBDA delay_samples :
    Let(DelayWriteAndRead(s.delay_lines[i], source, delay_samples), LAMBDA delayed :
    Let(FAdd(One, FMul(distance, AsF32(2))), LAMBDA spread :
        [line |-> delayed.line, out |-> FDiv(delayed.out, spread)]))))))))

\* WaveStimulus::process: the voice after the call and its 32 samples
WaveProcess(s) ==
    IF s.env_state = "Idle" THEN [stim |-> s, out |-> SilentFrame]
    ELSE
    Let(EnvelopeStep(s), LAMBDA e :
    Let([e EXCEPT !.source_pos = <<FMul(e.mpe.pitch_bend, Num(Scale \div 5)),
                                   FMul(e.mpe.timbre, Num(Scale \div 5))>>], LAMBDA m :
    Let(SourceSignal(m), LAMBDA source :
    Let([i \in Transducers |-> WaveTransducer(m, source, i)], LAMBDA r :
        [stim |-> PhaseStep([m EXCEPT !.delay_lines = [i \in Transducers |-> r[i].line]]),
         out |-> [i \in Transducers |-> r[i].out]]))))

\* a voice that counts as active only once its attack is over
IsActiveSounding(s) == s.env_state \in {"Sustain", "Release"}

IsActive(s) == s.env_state # "Idle"

WaveNoteOn(s, note, velocity, mpe) ==
    [s EXCEPT !.frequency = Frequency(note),
              !.amplitude = Amplitude(velocity),
              !.mpe = mpe,
              !.env_state = "Attack",
              !.env_time = 0,
              !.wave_speed = AsF32(100)]

\* note_off, the same for both kinds of voice
NoteOff(s) ==
    IF s.env_state # "Idle"
    THEN [s EXCEPT !.env_state = "Release", !.env_time = 0]
    ELSE s

\* mpe_update, the same for both kinds of voice
MpeUpdate(s, mpe) == [s EXCEPT !.mpe = mpe]

\* WaveStimulus::reset that leaves the delay lines as they are
WaveResetKeepsBuffers(s) ==
    [s EXCEPT !.phase = 0,
              !.env_state = "Idle",
              !.env_level = Zero,
              !.env_time = 0,
              !.wave_speed = AsF32(100)]

WaveReset(s) ==
    [s EXCEPT !.delay_lines = [i \in Transducers |-> DelayLineReset(s.delay_lines[i])],
              !.phase = 0,
              !.env_state = "Idle",
              !.env_level = Zero,
              !.env_time = 0,
              !.wave_speed = AsF32(100)]

\* the trait's default set_wave_speed, which does nothing
SetWaveSpeedDefault(s, wave_speed) == s

\* WaveStimulus::set_wave_speed
SetWaveSpeed(s, wave_speed) == [s EXCEPT !.wave_speed = wave_speed]

-----------------------------------------------------------------------------
(* StandingWaveStimulus *)

StandingStimulusDefault ==
    [frequency |-> 0, phase |-> 0, amplitude |-> Zero,
     env_state |-> "Idle", env_level |-> Zero, env_time |-> 0,
     mpe |-> MpeDefault]

\* a standing voice that drives the first transducer only
StandingProcessFirstOnly(s) ==
    IF s.env_state = "Idle" THEN [stim |-> s, out |-> SilentFrame]
    ELSE
    Let(EnvelopeStep(s), LAMBDA e :
    Let(SourceSignal(e), LAMBDA source :
        [stim |-> PhaseStep(e),
         out |-> [i \in Transducers |-> IF i = 0 THEN source ELSE Zero]]))

StandingProcess(s) ==
    IF s.env_state = "Idle" THEN [stim |-> s, out |-> SilentFrame]
    ELSE
    Let(EnvelopeStep(s), LAMBDA e :
    Let(SourceSignal(e), LAMBDA source :
        [stim |-> PhaseStep(e), out |-> [i \in Transducers |-> source]]))

StandingNoteOn(s, note, velocity, mpe) ==
    [s EXCEPT !.frequency = Frequency(note),
              !.amplitude = Amplitude(velocity),
              !.mpe = mpe,
              !.env_state = "Attack",
              !.env_time = 0]

StandingReset(s) ==
    [s EXCEPT !.phase = 0, !.env_state = "Idle", !.env_level = Zero, !.env_time = 0]

-----------------------------------------------------------------------------
(* trait Stimulus: a pool's call goes to the implementation of its voices *)

IsWave(s) == "delay_lines" \in DOMAIN s

Process(s) == IF IsWave(s) THEN WaveProcess(s) ELSE StandingProcess(s)

NoteOn(s, note, velocity, mpe) ==
    IF IsWave(s) THEN WaveNoteOn(s, note, velocity, mpe)
    ELSE StandingNoteOn(s, note, velocity, mpe)

Reset(s) == IF IsWave(s) THEN WaveReset(s) ELSE StandingReset(s)

-----------------------------------------------------------------------------
(* StimulusPool *)

\* a pool constructed with every occupancy bit set
WavePoolNewOccupied ==
    [stimuli |-> [i \in WaveSlots |-> WaveStimulusDefault],
     active_mask |-> [i \in WaveSlots |-> TRUE]]

WavePoolNew ==
    [stimuli |-> [i \in WaveSlots |-> WaveStimulusDefault],
     active_mask |-> [i \in WaveSlots |-> FALSE]]

StandingPoolNew ==
    [stimuli |-> [i \in StandingSlots |-> StandingStimulusDefault],
     active_mask |-> [i \in StandingSlots |-> FALSE]]

NoSlot == -1

\* a scan that falls back to slot 0 when no bit is clear
FirstFreeOrOldest(active_mask) ==
    LET free == {i \in DOMAIN active_mask : ~active_mask[i]}
    IN IF free = {} THEN 0
       ELSE CHOOSE i \in free : \A j \in free : i <= j

\* the index allocate's scan stops at: the first slot whose bit is clear
FirstFree(active_mask) ==
    LET free == {i \in DOMAIN active_mask : ~active_mask[i]}
    IN IF free = {} THEN NoSlot
       ELSE CHOOSE i \in free : \A j \in free : i <= j

\* an allocate that hands the slot out without setting its bit
AllocateUnmarked(pool) ==
    LET i == FirstFree(pool.active_mask)
    IN IF i = NoSlot THEN [pool |-> pool, slot |-> NoSlot]
       ELSE [pool |-> [stimuli |-> [pool.stimuli EXCEPT ![i] = Reset(@)],
                       active_mask |-> pool.active_mask],
             slot |-> i]

\* StimulusPool::allocate: the pool after the call and the slot handed out
Allocate(pool) ==
    LET i == FirstFree(pool.active_mask)
    IN IF i = NoSlot THEN [pool |-> pool, slot |-> NoSlot]
       ELSE [pool |-> [stimuli |-> [pool.stimuli EXCEPT ![i] = Reset(@)],
                       active_mask |-> [pool.active_mask EXCEPT ![i] = TRUE]],
             slot |-> i]

AddFrames(a, b) == [i \in Transducers |-> FAdd(a[i], b[i])]

RECURSIVE SumFrames(_, _, _, _)
\* output += stimulus_output, slot after slot
SumFrames(out, r, i, n) ==
    IF i >= n THEN out
    ELSE Let(IF r[i].ran THEN AddFrames(out, r[i].out) ELSE out, LAMBDA sum :
         Let(i + 1, LAMBDA next : SumFrames(sum, r, next, n)))

\* StimulusPool::process_all: the pool after the call and the summed frame
ProcessAll(pool, out) ==
    Let(DOMAIN pool.active_mask, LAMBDA slots :
    Let([i \in slots |->
            IF pool.active_mask[i] /\ IsActive(pool.stimuli[i])
            THEN [ran |-> TRUE] @@ Process(pool.stimuli[i])
            ELSE [ran |-> FALSE, stim |-> pool.stimuli[i], out |-> SilentFrame]], LAMBDA r :
        [pool |-> [stimuli |-> [i \in slots |-> r[i].stim],
                   active_mask |-> [i \in slots |-> pool.active_mask[i] /\ r[i].ran]],
         out |-> SumFrames(out, r, 0, Cardinality(slots))]))

-----------------------------------------------------------------------------
(* EngineCommand, and the commands the producers of a run may send *)

MpeFull == [pressure |-> One, pitch_bend |-> Zero, timbre |-> Num(Scale \div 2)]
MpeNaN == [pressure |-> NaN, pitch_bend |-> Zero, timbre |-> Num(Scale \div 2)]
MpeSoft == [pressure |-> Num(Scale \div 2), pitch_bend |-> Zero, timbre |-> Num(Scale \div 2)]

Notes == {9}
Velocities == {63, 64}
Channels == {0, 1}
NoteChannels == {0}
Mpes == {MpeFull, MpeNaN}

NoteOnCmd(n, v, c, m) ==
    [type |-> "NoteOn", note |-> n, velocity |-> v, channel |-> c, mpe |-> m]
NoteOffCmd(n, c) == [type |-> "NoteOff", note |-> n, channel |-> c]
MpeUpdateCmd(c, m) == [type |-> "MpeUpdate", channel |-> c, mpe |-> m]
PanicCmd == [type |-> "Panic"]
\* HapticCommand::SetWaveSpeed(speed), which has no EngineCommand
SetWaveSpeedCmd(speed) == [type |-> "SetWaveSpeed", speed |-> speed]

NoteOnCommands ==
    {NoteOnCmd(n, v, c, m) : n \in Notes, v \in Velocities, c \in NoteChannels, m \in Mpes}
NoteOffCommands == {NoteOffCmd(n, c) : n \in Notes, c \in Channels}
MpeUpdateCommands == {MpeUpdateCmd(c, MpeSoft) : c \in Channels}
Commands == NoteOnCommands \cup NoteOffCommands \cup MpeUpdateCommands \cup {PanicCmd}

\* the holders of a Sender: the IPC thread and StimulusEngine::handle_command
Producers == {"ipc", "engine"}

NoOwner == [note |-> -1, channel |-> -1]
OwnerOf(cmd) == [note |-> cmd.note, channel |-> cmd.channel]

-----------------------------------------------------------------------------
(* StimulusEngine *)

\* StimulusEngine::new, and the frame buffer the audio callback starts from
EngineNew ==
    /\ wave_pool = WavePoolNew
    /\ standing_pool = StandingPoolNew
    /\ command_queue = <<>>
    /\ output = SilentFrame
    /\ pc = "idle"
    /\ wave_owner = [i \in WaveSlots |-> NoOwner]
    /\ standing_owner = [i \in StandingSlots |-> NoOwner]
    /\ wave_off = [i \in WaveSlots |-> FALSE]
    /\ standing_off = [i \in StandingSlots |-> FALSE]
    /\ last_drained = "None"
    /\ notes_sent = 0
    /\ engine_lock = "none"
    /\ data = EmptyBuffer

\* a channel of one cell: a send overwrites what has not been received
EnqueueLatestOnly(queue, entry) == <<entry>>

\* command_producer.send(engine_cmd) on the unbounded channel: always queued
Enqueue(queue, entry) == Append(queue, entry)

\* a receive that hands out the newest queued command
DequeueNewest(queue) ==
    [entry |-> queue[Len(queue)], rest |-> SubSeq(queue, 1, Len(queue) - 1)]

\* command_queue.try_recv(): the oldest queued command
Dequeue(queue) == [entry |-> Head(queue), rest |-> Tail(queue)]

\* a producer that takes the engine's mutex to send, and keeps it
SendHoldingEngine(p, cmd) ==
    /\ command_queue' = IF cmd.type = "SetWaveSpeed" THEN command_queue
                        ELSE Enqueue(command_queue, [cmd |-> cmd, src |-> p])
    /\ notes_sent' = IF cmd.type = "NoteOn" THEN notes_sent + 1 ELSE notes_sent
    /\ engine_lock' = IF engine_lock = "none" THEN p ELSE engine_lock
    /\ UNCHANGED <<wave_pool, standing_pool, output, pc, wave_owner, standing_owner,
                   wave_off, standing_off, last_drained, run, data>>
    /\ UNCHANGED ipc_vars

\* a producer sends one command
Send(p, cmd) ==
    /\ command_queue' = IF cmd.type = "SetWaveSpeed" THEN command_queue
                        ELSE Enqueue(command_queue, [cmd |-> cmd, src |-> p])
    /\ notes_sent' = IF cmd.type = "NoteOn" THEN notes_sent + 1 ELSE notes_sent
    /\ UNCHANGED <<wave_pool, standing_pool, output, pc, wave_owner, standing_owner,
                   wave_off, standing_off, last_drained, run,
                   engine_lock, data>>
    /\ UNCHANGED ipc_vars

\* a split of the velocity range one step higher
RoutesToWaveUpTo64(velocity) == velocity <= 64

\* velocity < 64 selects the propagating pool
RoutesToWave(velocity) == velocity < 64

\* the NoteOn arm of process
DrainNoteOn(cmd) ==
    IF RoutesToWave(cmd.velocity)
    THEN LET a == Allocate(wave_pool)
         IN /\ wave_pool' =
                  IF a.slot = NoSlot THEN a.pool
                  ELSE [a.pool EXCEPT !.stimuli[a.slot] =
                          SetWaveSpeed(WaveNoteOn(@, cmd.note, cmd.velocity, cmd.mpe),
                                       WaveSpeedOf(cmd.velocity))]
            /\ wave_owner' = IF a.slot = NoSlot THEN wave_owner
                             ELSE [wave_owner EXCEPT ![a.slot] = OwnerOf(cmd)]
            /\ wave_off' = IF a.slot = NoSlot THEN wave_off
                           ELSE [wave_off EXCEPT ![a.slot] = FALSE]
            /\ UNCHANGED <<standing_pool, standing_owner, standing_off>>
    ELSE LET a == Allocate(standing_pool)
         IN /\ standing_pool' =
                  IF a.slot = NoSlot THEN a.pool
                  ELSE [a.pool EXCEPT !.stimuli[a.slot] =
                          StandingNoteOn(@, cmd.note, cmd.velocity, cmd.mpe)]
            /\ standing_owner' = IF a.slot = NoSlot THEN standing_owner
                                 ELSE [standing_owner EXCEPT ![a.slot] = OwnerOf(cmd)]
            /\ standing_off' = IF a.slot = NoSlot THEN standing_off
                               ELSE [standing_off EXCEPT ![a.slot] = FALSE]
            /\ UNCHANGED <<wave_pool, wave_owner, wave_off>>

\* a NoteOff arm that calls note_off on the voices the NoteOn of that note
\* and channel allocated
DrainNoteOffReleases(cmd) ==
    /\ wave_off' = [i \in WaveSlots |->
                      wave_off[i] \/ (wave_pool.active_mask[i] /\ wave_owner[i] = OwnerOf(cmd))]
    /\ standing_off' = [i \in StandingSlots |->
                      standing_off[i] \/ (standing_pool.active_mask[i] /\ standing_owner[i] = OwnerOf(cmd))]
    /\ wave_pool' = [wave_pool EXCEPT !.stimuli = [i \in WaveSlots |->
                      IF wave_pool.active_mask[i] /\ wave_owner[i] = OwnerOf(cmd)
                      THEN NoteOff(wave_pool.stimuli[i]) ELSE wave_pool.stimuli[i]]]
    /\ standing_pool' = [standing_pool EXCEPT !.stimuli = [i \in StandingSlots |->
                      IF standing_pool.active_mask[i] /\ standing_owner[i] = OwnerOf(cmd)
                      THEN NoteOff(standing_pool.stimuli[i]) ELSE standing_pool.stimuli[i]]]
    /\ UNCHANGED <<wave_owner, standing_owner>>

\* the NoteOff arm of process: the note-to-stimulus mapping is a TODO and no
\* voice is touched
DrainNoteOff(cmd) ==
    /\ wave_off' = [i \in WaveSlots |->
                      wave_off[i] \/ (wave_pool.active_mask[i] /\ wave_owner[i] = OwnerOf(cmd))]
    /\ standing_off' = [i \in StandingSlots |->
                      standing_off[i] \/ (standing_pool.active_mask[i] /\ standing_owner[i] = OwnerOf(cmd))]
    /\ UNCHANGED <<wave_pool, standing_pool, wave_owner, standing_owner>>

\* the `_ => {}` arm of process, which is where MpeUpdate lands
DrainOther(cmd) ==
    UNCHANGED <<wave_pool, standing_pool, wave_owner, standing_owner, wave_off, standing_off>>

\* a Panic arm that replaces the propagating pool only
DrainPanicWaveOnly ==
    /\ wave_pool' = WavePoolNew
    /\ wave_owner' = [i \in WaveSlots |-> NoOwner]
    /\ wave_off' = [i \in WaveSlots |-> FALSE]
    /\ UNCHANGED <<standing_pool, standing_owner, standing_off>>

\* the Panic arm of process
DrainPanic ==
    /\ wave_pool' = WavePoolNew
    /\ standing_pool' = StandingPoolNew
    /\ wave_owner' = [i \in WaveSlots |-> NoOwner]
    /\ standing_owner' = [i \in StandingSlots |-> NoOwner]
    /\ wave_off' = [i \in WaveSlots |-> FALSE]
    /\ standing_off' = [i \in StandingSlots |-> FALSE]

\* the copy of one frame into the device buffer, for a device of `channels`
\* channels: the first min(channels, 32) outputs, then zeros
Interleave(frame, channels) ==
    [ch \in 0 .. (channels - 1) |-> IF ch < TRANSDUCER_COUNT THEN frame[ch] ELSE Zero]


\* the device invokes the audio callback, which calls engine.process
BeginProcess ==
    /\ pc = "idle"
    /\ IF engine_lock = "none"
       THEN /\ engine_lock' = "audio"
            /\ pc' = "process"
            /\ UNCHANGED <<output, data>>
       ELSE /\ output' = SilentFrame
            /\ data' = Interleave(SilentFrame, run.channels)
            /\ UNCHANGED <<pc, engine_lock>>
    /\ UNCHANGED <<wave_pool, standing_pool, command_queue, wave_owner,
                   standing_owner, wave_off, standing_off, last_drained,
                   notes_sent, run>>
    /\ UNCHANGED ipc_vars

\* one turn of `while let Ok(cmd) = self.command_queue.try_recv()`
Drain ==
    /\ pc = "process"
    /\ command_queue # <<>>
    /\ LET d == Dequeue(command_queue)
           cmd == d.entry.cmd
       IN /\ command_queue' = d.rest
          /\ last_drained' = cmd.type
          /\ CASE cmd.type = "NoteOn" -> DrainNoteOn(cmd)
               [] cmd.type = "NoteOff" -> DrainNoteOff(cmd)
               [] cmd.type = "Panic" -> DrainPanic
               [] OTHER -> DrainOther(cmd)
    /\ UNCHANGED <<output, pc, notes_sent, run,
                   engine_lock, data>>
    /\ UNCHANGED ipc_vars

\* the safety limiter
Limit(frame) == [i \in Transducers |-> FClamp(frame[i], FNeg(One), One)]

\* the rest of process once try_recv finds the channel empty: clear the
\* frame, run both pools, limit
Render ==
    /\ pc = "process"
    /\ command_queue = <<>>
    /\ pc' = "idle"
    /\ \E w \in {Force(ProcessAll(wave_pool, SilentFrame))} :
       \E s \in {Force(ProcessAll(standing_pool, w.out))} :
          /\ wave_pool' = w.pool
          /\ standing_pool' = s.pool
          /\ output' = Limit(s.out)
    /\ engine_lock' = "none"
    /\ data' = Interleave(output', run.channels)
    /\ last_drained' = "None"
    /\ UNCHANGED <<command_queue, wave_owner, standing_owner, wave_off,
                   standing_off, notes_sent, run>>
    /\ UNCHANGED ipc_vars

\* how many samples an active propagating voice has written to its delay lines
DelayFill == {AsUsize(wave_pool.stimuli[i].delay_lines[0].write_pos) :
                 i \in {j \in WaveSlots : wave_pool.active_mask[j]}}

SendBounded ==
    \E p \in run.producers, cmd \in run.commands :
        /\ Len(command_queue) < run.max_queue
        /\ cmd.type = "NoteOn" => notes_sent < run.max_notes
        /\ Send(p, cmd)

RenderBounded ==
    /\ \A n \in DelayFill : n < MaxFrames
    /\ Render

Next == SendBounded \/ BeginProcess \/ Drain \/ RenderBounded

\* a step of the audio thread
AudioStep == BeginProcess \/ Drain \/ RenderBounded

-----------------------------------------------------------------------------
(* The wire: HapticCommand and its bincode encoding *)

BUFFER_SIZE == 1024  \* handle_client's read buffer, in bytes
MaxWrites == 2       \* commands the first client writes in one run

ClientIds == {1, 2}

\* the timestamps clients stamp their commands with
Timestamps == {3}

HapticNoteOn(ts, n, v, c, m) ==
    [type |-> "NoteOn", timestamp_us |-> ts, note |-> n, velocity |-> v,
     channel |-> c, mpe |-> m]
HapticNoteOff(ts, n, c) ==
    [type |-> "NoteOff", timestamp_us |-> ts, note |-> n, channel |-> c]
HapticMpeUpdate(ts, c, m) ==
    [type |-> "MpeUpdate", timestamp_us |-> ts, channel |-> c, mpe |-> m]
HapticPanic == [type |-> "Panic"]

\* what the clients of a run write
WireCommands == {HapticPanic} \cup {HapticNoteOff(ts, 9, 0) : ts \in Timestamps}

\* an f32 as one wire unit, and back
ToBits(x) == IF x.fin THEN 2 * x.v ELSE 2 * x.v + 1
FromBits(b) == IF b % 2 = 0 THEN Num(b \div 2) ELSE [fin |-> FALSE, v |-> (b - 1) \div 2]

MpeUnits(m) == <<ToBits(m.pressure), ToBits(m.pitch_bend), ToBits(m.timbre)>>
MpeOf(u, i) ==
    [pressure |-> FromBits(u[i]), pitch_bend |-> FromBits(u[i + 1]),
     timbre |-> FromBits(u[i + 2])]

\* bincode::serialize_into: the variant's index, then its fields in order
Serialize(command) ==
    CASE command.type = "NoteOn" ->
            <<0, command.timestamp_us, command.note, command.velocity, command.channel>>
                \o MpeUnits(command.mpe)
      [] command.type = "NoteOff" ->
            <<1, command.timestamp_us, command.note, command.channel>>
      [] command.type = "MpeUpdate" ->
            <<2, command.timestamp_us, command.channel>> \o MpeUnits(command.mpe)
      [] OTHER -> <<3>>

DecodeError == [ok |-> FALSE]

\* bincode::deserialize::<HapticCommand> of a slice: the variant the first
\* unit names, read from the units that follow; units past the command are
\* ignored, too few units or an unknown index are an error
Deserialize(units) ==
    IF units = <<>> THEN DecodeError
    ELSE CASE units[1] = 0 /\ Len(units) >= 8 ->
                [ok |-> TRUE,
                 command |-> HapticNoteOn(units[2], units[3], units[4], units[5],
                                          MpeOf(units, 6))]
           [] units[1] = 1 /\ Len(units) >= 4 ->
                [ok |-> TRUE, command |-> HapticNoteOff(units[2], units[3], units[4])]
           [] units[1] = 2 /\ Len(units) >= 6 ->
                [ok |-> TRUE, command |-> HapticMpeUpdate(units[2], units[3], MpeOf(units, 4))]
           [] units[1] = 3 -> [ok |-> TRUE, command |-> HapticPanic]
           [] OTHER -> DecodeError

\* handle_client's conversion of a HapticCommand to an EngineCommand
ToEngine(command) ==
    CASE command.type = "NoteOn" ->
            NoteOnCmd(command.note, command.velocity, command.channel, command.mpe)
      [] command.type = "NoteOff" -> NoteOffCmd(command.note, command.channel)
      [] command.type = "MpeUpdate" -> MpeUpdateCmd(command.channel, command.mpe)
      [] OTHER -> PanicCmd

-----------------------------------------------------------------------------
(* The IPC thread: listen_loop and handle_client *)

NoRead == [kind |-> "None"]

\* a client's end of the socket before it connects
PeerNew == [state |-> "new", stream |-> <<>>, written |-> <<>>, fault |-> FALSE]

\* main up to the start of the audio loop: the flag is set, the IPC
\* thread is spawned; a socket file may be left over from an earlier server
ServerStart(stale) ==
    /\ running = TRUE
    /\ ipc_pc = "start"
    /\ main_pc = "audio"
    /\ socket_file = stale
    /\ clients = <<>>
    /\ conn = [c \in ClientIds |-> PeerNew]
    /\ last_read = [c \in ClientIds |-> NoRead]

\* std::fs::remove_file(SOCKET_PATH)
RemoveFile(exists) == FALSE

\* UnixListener::bind: fails when the path exists
BindSucceeds(exists) == ~exists

\* stream.read(&mut buffer) on a non-blocking stream, the kernel handing
\* over n units at most
Read(peer, n) ==
    IF peer.fault THEN [kind |-> "Err"]
    ELSE IF peer.stream # <<>>
    THEN Let(IF n < Len(peer.stream) THEN n ELSE Len(peer.stream), LAMBDA len :
         Let(IF len < BUFFER_SIZE THEN len ELSE BUFFER_SIZE, LAMBDA got :
             [kind |-> "Ok", units |-> SubSeq(peer.stream, 1, got)]))
    ELSE IF peer.state = "closed" THEN [kind |-> "Ok", units |-> <<>>]
    ELSE [kind |-> "WouldBlock"]

\* a handle_client that gives up a client whose read does not decode
HandleClientDropsMalformed(c, peer, n, queue) ==
    Let(Read(peer, n), LAMBDA r :
        IF r.kind = "Ok" /\ r.units # <<>>
        THEN Let(Deserialize(r.units), LAMBDA d :
             Let([peer EXCEPT !.stream = SubSeq(@, Len(r.units) + 1, Len(@))], LAMBDA rest :
                 IF d.ok
                 THEN [keep |-> TRUE, peer |-> rest, read |-> r,
                       queue |-> Enqueue(queue, [cmd |-> ToEngine(d.command), src |-> c])]
                 ELSE [keep |-> FALSE, peer |-> rest, read |-> r, queue |-> queue]))
        ELSE [keep |-> r.kind = "WouldBlock", peer |-> peer, read |-> r, queue |-> queue])

\* handle_client: one read, one deserialize of what it returned, one send;
\* the result tells retain_mut whether to keep the client
HandleClient(c, peer, n, queue) ==
    Let(Read(peer, n), LAMBDA r :
        IF r.kind = "Ok" /\ r.units # <<>>
        THEN Let(Deserialize(r.units), LAMBDA d :
             Let([peer EXCEPT !.stream = SubSeq(@, Len(r.units) + 1, Len(@))], LAMBDA rest :
                 IF d.ok
                 THEN [keep |-> TRUE, peer |-> rest, read |-> r,
                       queue |-> Enqueue(queue, [cmd |-> ToEngine(d.command), src |-> c])]
                 ELSE [keep |-> TRUE, peer |-> rest, read |-> r, queue |-> queue]))
        ELSE [keep |-> r.kind = "WouldBlock", peer |-> peer, read |-> r, queue |-> queue])

RECURSIVE RetainMut(_, _, _, _)
\* clients.retain_mut(|client| handle_client(client, &command_producer)):
\* every client in list order; a client not kept is dropped, which closes
\* its stream
RetainMut(list, i, n, st) ==
    IF i > Len(list) THEN st
    ELSE Let(list[i], LAMBDA c :
         Let(HandleClient(c, st.conn[c], n[c], st.queue), LAMBDA h :
         Let([kept |-> IF h.keep THEN Append(st.kept, c) ELSE st.kept,
              conn |-> [st.conn EXCEPT ![c] =
                           IF h.keep THEN h.peer ELSE [h.peer EXCEPT !.state = "dropped"]],
              queue |-> h.queue,
              last |-> [st.last EXCEPT ![c] = h.read]], LAMBDA st2 :
         Let(i + 1, LAMBDA next : RetainMut(list, next, n, st2)))))

Listed == {clients[i] : i \in 1 .. Len(clients)}

\* the connections waiting in the listener's backlog
Pending == {c \in ClientIds : conn[c].state \in {"connected", "closed"} /\ c \notin Listed}

\* listener.accept() on the non-blocking listener: a waiting connection, or
\* WouldBlock (0) when there is none
Accepted == IF Pending = {} THEN {0} ELSE Pending

\* let _ = std::fs::remove_file(SOCKET_PATH)
RemoveStale ==
    /\ ipc_pc = "start"
    /\ socket_file' = RemoveFile(socket_file)
    /\ ipc_pc' = "bind"
    /\ UNCHANGED <<command_queue, engine_vars, running, main_pc, clients, conn, last_read>>

\* UnixListener::bind(SOCKET_PATH)?, set_nonblocking
Bind ==
    /\ ipc_pc = "bind"
    /\ IF BindSucceeds(socket_file)
       THEN socket_file' = TRUE /\ ipc_pc' = "loop"
       ELSE socket_file' = socket_file /\ ipc_pc' = "done"
    /\ UNCHANGED <<command_queue, engine_vars, running, main_pc, clients, conn, last_read>>

\* one turn of `while running.load(Ordering::Relaxed)`: accept, retain_mut,
\* sleep
ListenIterate ==
    /\ ipc_pc = "loop"
    /\ running
    /\ \E a \in Accepted, n \in [ClientIds -> 1 .. run.max_read] :
       /\ \A c \in ClientIds : n[c] = 1 \/ n[c] <= Len(conn[c].stream)
       /\ \E st \in {Force(RetainMut(IF a = 0 THEN clients ELSE Append(clients, a), 1, n,
                                  [kept |-> <<>>, conn |-> conn, queue |-> command_queue,
                                   last |-> [c \in ClientIds |-> NoRead]]))} :
          /\ clients' = st.kept
          /\ conn' = st.conn
          /\ command_queue' = st.queue
          /\ last_read' = st.last
    /\ UNCHANGED <<engine_vars, running, ipc_pc, main_pc, socket_file>>

\* a listen loop that returns without its cleanup
ListenExitLeavesFile ==
    /\ ipc_pc = "loop"
    /\ ~running
    /\ ipc_pc' = "done"
    /\ clients' = <<>>
    /\ conn' = [c \in ClientIds |->
                  IF c \in Listed \cup Pending THEN [conn[c] EXCEPT !.state = "dropped"]
                  ELSE conn[c]]
    /\ last_read' = [c \in ClientIds |-> NoRead]
    /\ UNCHANGED <<command_queue, engine_vars, running, main_pc, socket_file>>

\* the loop condition read false: remove the socket file and return, which
\* drops the listener and the clients
ListenExit ==
    /\ ipc_pc = "loop"
    /\ ~running
    /\ socket_file' = RemoveFile(socket_file)
    /\ ipc_pc' = "done"
    /\ clients' = <<>>
    /\ conn' = [c \in ClientIds |->
                  IF c \in Listed \cup Pending THEN [conn[c] EXCEPT !.state = "dropped"]
                  ELSE conn[c]]
    /\ last_read' = [c \in ClientIds |-> NoRead]
    /\ UNCHANGED <<command_queue, engine_vars, running, main_pc>>

IpcThread == RemoveStale \/ Bind \/ ListenIterate \/ ListenExit

-----------------------------------------------------------------------------
(* The clients' ends: the plugin's ipc_worker *)

\* UnixStream::connect on the bound path
ClientConnect ==
    \E c \in run.clients :
        /\ conn[c].state = "new"
        /\ ipc_pc = "loop"
        /\ conn' = [conn EXCEPT ![c].state = "connected"]
        /\ UNCHANGED <<command_queue, engine_vars, running, ipc_pc, main_pc,
                       socket_file, clients, last_read>>

\* serialize_into the write buffer, then stream.write_all
ClientWrite ==
    \E c \in run.clients, command \in run.wire :
        /\ conn[c].state = "connected"
        /\ Len(conn[c].written) < run.max_writes[c]
        /\ conn' = [conn EXCEPT ![c].stream = @ \o Serialize(command),
                                ![c].written = Append(@, command)]
        /\ UNCHANGED <<command_queue, engine_vars, running, ipc_pc, main_pc,
                       socket_file, clients, last_read>>

\* the worker ends and its stream is dropped
ClientClose ==
    \E c \in run.clients :
        /\ conn[c].state = "connected"
        /\ conn' = [conn EXCEPT ![c].state = "closed"]
        /\ UNCHANGED <<command_queue, engine_vars, running, ipc_pc, main_pc,
                       socket_file, clients, last_read>>

\* the connection breaks: the server's next read fails
ClientFault ==
    \E c \in run.clients :
        /\ conn[c].state = "connected"
        /\ ~conn[c].fault
        /\ conn' = [conn EXCEPT ![c].fault = TRUE]
        /\ UNCHANGED <<command_queue, engine_vars, running, ipc_pc, main_pc,
                       socket_file, clients, last_read>>

-----------------------------------------------------------------------------
(* The main thread and the signal handler *)

\* the ctrlc handler: running_for_signal.store(false)
SignalInterrupt ==
    /\ running
    /\ main_pc # "exit"
    /\ running' = FALSE
    /\ UNCHANGED <<command_queue, engine_vars, ipc_pc, main_pc, socket_file,
                   clients, conn, last_read>>

\* run_audio_loop returns an error: no device, no stream
AudioFails ==
    /\ main_pc = "audio"
    /\ running
    /\ main_pc' = "cleanup"
    /\ UNCHANGED <<command_queue, engine_vars, running, ipc_pc, socket_file,
                   clients, conn, last_read>>

\* the keep-alive loop `while running.load(Ordering::Relaxed)` reads false
AudioLoopReturns ==
    /\ main_pc = "audio"
    /\ ~running
    /\ main_pc' = "cleanup"
    /\ UNCHANGED <<command_queue, engine_vars, running, ipc_pc, socket_file,
                   clients, conn, last_read>>

\* running.store(false, Ordering::Relaxed)
MainCleanup ==
    /\ main_pc = "cleanup"
    /\ running' = FALSE
    /\ main_pc' = "join"
    /\ UNCHANGED <<command_queue, engine_vars, ipc_pc, socket_file, clients,
                   conn, last_read>>

\* ipc_handle.join().ok(), then main returns
MainJoin ==
    /\ main_pc = "join"
    /\ ipc_pc = "done"
    /\ main_pc' = "exit"
    /\ UNCHANGED <<command_queue, engine_vars, running, ipc_pc, socket_file,
                   clients, conn, last_read>>

MainThread == AudioLoopReturns \/ MainCleanup \/ MainJoin

\* the server while no one stops it
ServeNext ==
    \/ RemoveStale \/ Bind \/ ListenIterate
    \/ ClientConnect \/ ClientWrite \/ ClientClose \/ ClientFault

\* the server from start to exit
IpcNext ==
    \/ RemoveStale \/ Bind \/ ListenIterate \/ ListenExit
    \/ ClientConnect \/ ClientWrite \/ ClientClose \/ ClientFault
    \/ SignalInterrupt \/ AudioFails \/ AudioLoopReturns \/ MainCleanup \/ MainJoin

-----------------------------------------------------------------------------
(* Specifications: one engine, different producers *)

\* the IPC thread sends any command; few are queued at a time
Init ==
    /\ EngineNew
    /\ ServerStart(FALSE)
    /\ run = [commands |-> Commands \cup {SetWaveSpeedCmd(AsF32(100))},
              producers |-> {"ipc"}, channels |-> TRANSDUCER_COUNT,
              max_queue |-> MaxQueue, max_notes |-> MaxNoteOns]

Spec == Init /\ [][Next]_vars

\* standing-wave notes only, from both producers, with a backlog; the audio
\* thread is scheduled fairly, the producers are not
FairCommands == {NoteOnCmd(9, 64, 0, MpeFull), NoteOffCmd(9, 0), PanicCmd}

FairInit ==
    /\ EngineNew
    /\ ServerStart(FALSE)
    /\ run = [commands |-> FairCommands, producers |-> Producers, channels |-> TRANSDUCER_COUNT,
              max_queue |-> MaxBacklog, max_notes |-> MaxNoteOns]

FairSpec == FairInit /\ [][Next]_vars /\ WF_vars(AudioStep)

\* one kind of NoteOn, more of them than the pool it routes to has slots
ExhaustNoteOns == MAX_WAVE_STIMULI + 1

ExhaustInit ==
    /\ EngineNew
    /\ ServerStart(FALSE)
    /\ \E v \in Velocities :
         run = [commands |-> {NoteOnCmd(9, v, 0, MpeFull)}, producers |-> {"ipc"}, channels |-> TRANSDUCER_COUNT,
                max_queue |-> MaxQueue, max_notes |-> ExhaustNoteOns]

ExhaustSpec == ExhaustInit /\ [][Next]_vars

\* the stretch between two Panics: NoteOffs, and more high-velocity NoteOns
\* than the standing pool has slots
FillInit ==
    /\ EngineNew
    /\ ServerStart(FALSE)
    /\ run = [commands |-> {NoteOnCmd(9, 64, 0, MpeFull), NoteOffCmd(9, 0)},
              producers |-> {"ipc"}, channels |-> TRANSDUCER_COUNT,
              max_queue |-> MaxQueue, max_notes |-> MAX_STANDING_STIMULI + 1]

FillSpec == FillInit /\ [][Next]_vars

\* the IPC thread floods the bridge
BridgeInit ==
    /\ EngineNew
    /\ ServerStart(FALSE)
    /\ run = [commands |-> {PanicCmd}, producers |-> {"ipc"}, channels |-> TRANSDUCER_COUNT,
              max_queue |-> MaxBridgeSends, max_notes |-> 0]

BridgeSpec == BridgeInit /\ [][Next]_vars

\* run_audio_loop up to stream.play(): `found` is whether some device lists a
\* configuration of 32 or more channels (of `wide` channels), `dflt` is the
\* channel count of the chosen device's default configuration, and `listed`
\* is whether the second supported_output_configs() of that device returns
\* Ok. The fallback device lists no wide configuration, so its default is
\* narrow. `warnings` counts the lines "Warning: No 32-channel device found".
DeviceInit ==
    /\ EngineNew
    /\ ServerStart(FALSE)
    /\ \E found \in BOOLEAN, listed \in BOOLEAN, wide \in {32, 34}, dflt \in {2, 32, 34} :
          /\ ~found => dflt < 32 /\ ~listed
          /\ run = [commands |-> {NoteOnCmd(9, 64, 0, MpeFull), PanicCmd},
                    producers |-> {"ipc"},
                    channels |-> IF found /\ listed THEN wide ELSE dflt,
                    warnings |-> IF found THEN 0 ELSE 1,
                    max_queue |-> MaxQueue, max_notes |-> MaxNoteOns]

DeviceSpec == DeviceInit /\ [][Next]_vars

-----------------------------------------------------------------------------
(* One voice driven directly through the methods of trait Stimulus *)

MaxVoiceFrames == 12 \* process calls on the voice under test

Kinds == {"wave", "standing"}

\* the voice under test: the first voice of the pool of its kind
Voice(kind) ==
    IF kind = "wave" THEN wave_pool.stimuli[0] ELSE standing_pool.stimuli[0]

SetVoice(kind, s) ==
    IF kind = "wave"
    THEN wave_pool' = [wave_pool EXCEPT !.stimuli[0] = s] /\ UNCHANGED standing_pool
    ELSE standing_pool' = [standing_pool EXCEPT !.stimuli[0] = s] /\ UNCHANGED wave_pool

\* how many process calls a voice has gone through since it last could stop
FramesOf(s) ==
    IF IsWave(s) THEN AsUsize(s.delay_lines[0].write_pos) ELSE s.env_time

VoiceNoteOn ==
    \E kind \in run.kinds, cmd \in run.commands :
        /\ notes_sent < run.max_notes
        /\ SetVoice(kind, NoteOn(Voice(kind), cmd.note, cmd.velocity, cmd.mpe))
        /\ notes_sent' = notes_sent + 1
        /\ UNCHANGED <<command_queue, output, pc, wave_owner, standing_owner,
                       wave_off, standing_off, last_drained, run,
                   engine_lock, data>>
        /\ UNCHANGED ipc_vars

VoiceNoteOff ==
    \E kind \in run.kinds :
        /\ SetVoice(kind, NoteOff(Voice(kind)))
        /\ UNCHANGED <<command_queue, output, pc, wave_owner, standing_owner,
                       wave_off, standing_off, last_drained, notes_sent, run,
                   engine_lock, data>>
        /\ UNCHANGED ipc_vars

VoiceProcess ==
    \E kind \in run.kinds :
        /\ FramesOf(Voice(kind)) < MaxVoiceFrames
        /\ \E r \in {Force(Process(Voice(kind)))} :
              /\ SetVoice(kind, r.stim)
              /\ output' = r.out
        /\ UNCHANGED <<command_queue, pc, wave_owner, standing_owner,
                       wave_off, standing_off, last_drained, notes_sent, run,
                   engine_lock, data>>
        /\ UNCHANGED ipc_vars

VoiceNext == VoiceNoteOn \/ VoiceNoteOff \/ VoiceProcess

\* a default-constructed voice of either kind, and callers that may repeat
\* note_on
VoiceInit ==
    /\ EngineNew
    /\ ServerStart(FALSE)
    /\ \E kind \in Kinds :
         run = [kinds |-> {kind}, commands |-> {NoteOnCmd(9, 64, 0, MpeFull)},
                max_notes |-> MaxNoteOns]

VoiceSpec == VoiceInit /\ [][VoiceNext]_vars

\* StimulusPool::allocate on the pool of the voice under test, at a moment
\* when it is that voice the pool hands out
VoiceAllocate ==
    \E kind \in run.kinds :
        \E a \in {Force(Allocate(IF kind = "wave" THEN wave_pool ELSE standing_pool))} :
            /\ a.slot = 0
            /\ IF kind = "wave"
               THEN wave_pool' = a.pool /\ UNCHANGED standing_pool
               ELSE standing_pool' = a.pool /\ UNCHANGED wave_pool
            /\ UNCHANGED <<command_queue, output, pc, wave_owner, standing_owner,
                           wave_off, standing_off, last_drained, notes_sent, run,
                   engine_lock, data>>
            /\ UNCHANGED ipc_vars

ReuseNext == VoiceNoteOn \/ VoiceNoteOff \/ VoiceProcess \/ VoiceAllocate

\* a propagating voice in a free slot of its pool, played at a note whose
\* frequency (27.5 Hz) is above the sample rate, then handed out by allocate
ReuseInit ==
    /\ EngineNew
    /\ ServerStart(FALSE)
    /\ run = [kinds |-> {"wave"}, commands |-> {NoteOnCmd(21, 64, 0, MpeFull)},
              max_notes |-> MaxNoteOns]

ReuseSpec == ReuseInit /\ [][ReuseNext]_vars

-----------------------------------------------------------------------------
(* One delay line on its own: the first line of the first propagating      *)
(* voice, fed an impulse (1, then zeros) through write_and_read.           *)
(* notes_sent counts the calls since the line was last all zero with its   *)
(* cursor at 0, and output[0] is the sample the last call returned.        *)

MaxDelay == 6  \* largest short delay of a round trip
MaxCalls == 8  \* calls of a run with a short delay

\* delays of a run that mixes them: none, fractional, just below, at and
\* above the buffer size, and infinite
MixedDelays == {Zero, Num(Scale + Scale \div 2), AsF32(MAX_DELAY_SAMPLES - 1),
                AsF32(MAX_DELAY_SAMPLES), AsF32(2 * MAX_DELAY_SAMPLES + 1), PosInf}

\* DelayLine::write_and_read(input, delay_samples)
DelayCall ==
    \E delay_samples \in run.delays :
        /\ notes_sent < run.max_calls
        /\ \E r \in {Force(DelayWriteAndRead(wave_pool.stimuli[0].delay_lines[0],
                                              IF notes_sent = 0 THEN One ELSE Zero,
                                              delay_samples))} :
              /\ wave_pool' = [wave_pool EXCEPT !.stimuli[0].delay_lines[0] = r.line]
              /\ output' = [output EXCEPT ![0] = r.out]
        /\ notes_sent' = notes_sent + 1
        /\ UNCHANGED <<standing_pool, command_queue, pc, wave_owner, standing_owner,
                       wave_off, standing_off, last_drained, run,
                   engine_lock, data>>
        /\ UNCHANGED ipc_vars

\* DelayLine::reset
DelayClear ==
    /\ notes_sent > 0
    /\ wave_pool' = [wave_pool EXCEPT !.stimuli[0].delay_lines[0] = DelayLineReset(@)]
    /\ output' = SilentFrame
    /\ notes_sent' = 0
    /\ UNCHANGED <<standing_pool, command_queue, pc, wave_owner, standing_owner,
                   wave_off, standing_off, last_drained, run,
                   engine_lock, data>>
    /\ UNCHANGED ipc_vars

DelayNext == DelayCall \/ DelayClear

\* a new delay line, and the delays its callers pass: one whole number of
\* samples throughout (short, or the longest the buffer holds), or a mix
DelayInit ==
    /\ EngineNew
    /\ ServerStart(FALSE)
    /\ run \in {[delays |-> {AsF32(k)}, max_calls |-> MaxCalls] : k \in 0 .. MaxDelay}
          \cup {[delays |-> {AsF32(MAX_DELAY_SAMPLES - 1)},
                  max_calls |-> MAX_DELAY_SAMPLES + 2],
                 [delays |-> MixedDelays, max_calls |-> MAX_DELAY_SAMPLES + 2]}

DelaySpec == DelayInit /\ [][DelayNext]_vars

-----------------------------------------------------------------------------
(* The server with its clients, the engine left aside *)

MaxRead == 8         \* units one read returns at most: the longest stream of a run

\* two clients, the first writing more than one command; a stale socket
\* file or none
IpcInit ==
    /\ EngineNew
    /\ \E stale \in BOOLEAN : ServerStart(stale)
    /\ run = [clients |-> ClientIds, wire |-> WireCommands,
              max_writes |-> [c \in ClientIds |-> IF c = 1 THEN MaxWrites ELSE 1],
              max_read |-> MaxRead]

\* the listen loop serving its clients
IpcSpec == IpcInit /\ [][ServeNext]_vars

\* one client, one command, a stale socket file or none
ShutdownInit ==
    /\ EngineNew
    /\ \E stale \in BOOLEAN : ServerStart(stale)
    /\ run = [clients |-> {1}, wire |-> WireCommands,
              max_writes |-> [c \in ClientIds |-> 1], max_read |-> MaxRead]

\* the IPC thread and the main thread are scheduled fairly; the clients,
\* the signal and a device failure are not
ShutdownSpec ==
    ShutdownInit /\ [][IpcNext]_vars /\ WF_vars(IpcThread) /\ WF_vars(MainThread)

-----------------------------------------------------------------------------
(* Heap allocations of the audio thread *)

\* the boxes one voice owns: a DelayLine holds its buffer in a Box, and a
\* propagating voice holds one DelayLine per transducer
BoxesOf(s) == IF IsWave(s) THEN Cardinality(DOMAIN s.delay_lines) ELSE 0

\* Box::new calls of StimulusPool::new, which default-constructs every voice
PoolNewAllocs(pool) == Cardinality(DOMAIN pool.stimuli) * BoxesOf(pool.stimuli[0])

\* Box::new calls of one turn of the drain loop
DrainAllocs(cmd) ==
    IF cmd.type = "Panic"
    THEN PoolNewAllocs(WavePoolNew) + PoolNewAllocs(StandingPoolNew)
    ELSE 0

\* the frame process hands to the limiter
SummedFrame ==
    ProcessAll(standing_pool, ProcessAll(wave_pool, SilentFrame).out).out

-----------------------------------------------------------------------------
(* Vocabulary of the properties *)

\* the step is one turn of the drain loop, handling a command of type t
Drains(t) ==
    /\ pc = "process" /\ pc' = "process"
    /\ Len(command_queue') = Len(command_queue) - 1
    /\ last_drained' = t

\* the step is the rendering half of a process call
Renders == pc = "process" /\ pc' = "idle"

WaveActive == {i \in WaveSlots : wave_pool.active_mask[i]}
StandingActive == {i \in StandingSlots : standing_pool.active_mask[i]}

AllIdle ==
    /\ WaveActive = {} /\ StandingActive = {}
    /\ \A i \in WaveSlots : wave_pool.stimuli[i].env_state = "Idle"
    /\ \A i \in StandingSlots : standing_pool.stimuli[i].env_state = "Idle"

InUnitRange(x) == x.fin /\ -Scale <= x.v /\ x.v <= Scale

RemoveAt(q, i) == SubSeq(q, 1, i - 1) \o SubSeq(q, i + 1, Len(q))

-----------------------------------------------------------------------------
(* C1: every one of the 32 values a process call leaves in the output      *)
(* frame lies in [-1, +1], whatever commands were sent.                    *)
C1_OutputBounded == \A i \in Transducers : InUnitRange(output[i])

(* C2: when a NoteOff{note, channel} is drained, every voice of either     *)
(* pool that a NoteOn with the same (note, channel) started and that is    *)
(* not Idle is in Release with env_time 0 afterwards.                      *)
C2_NoteOffReleases ==
    [][Drains("NoteOff") =>
        LET off == Head(command_queue).cmd
        IN /\ \A i \in WaveSlots :
                (wave_owner[i] = OwnerOf(off) /\ wave_pool.active_mask[i]
                     /\ IsActive(wave_pool.stimuli[i]))
                => (wave_pool.stimuli[i].env_state' = "Release"
                    /\ wave_pool.stimuli[i].env_time' = 0)
           /\ \A i \in StandingSlots :
                (standing_owner[i] = OwnerOf(off) /\ standing_pool.active_mask[i]
                     /\ IsActive(standing_pool.stimuli[i]))
                => (standing_pool.stimuli[i].env_state' = "Release"
                    /\ standing_pool.stimuli[i].env_time' = 0)]_vars

(* C3: a voice whose matching NoteOff has been drained eventually returns  *)
(* to Idle and its pool slot becomes inactive, provided process calls keep *)
(* completing.                                                             *)
C3_ReleaseCompletes ==
    ([]<>(pc = "idle")) =>
        /\ \A i \in WaveSlots : wave_off[i] ~> ~wave_pool.active_mask[i]
        /\ \A i \in StandingSlots : standing_off[i] ~> ~standing_pool.active_mask[i]

(* C4: a process call whose drain ends with a Panic outputs a frame that   *)
(* is zero on all 32 channels and leaves every slot of both pools inactive *)
(* with its voice Idle, whatever the engine state was before.              *)
C4_PanicSilences ==
    [][(Renders /\ last_drained = "Panic") => (output' = SilentFrame /\ AllIdle')]_vars

\* a Panic was the last command drained, the queue is empty, and the frame
\* before it was sounding
C4_Witness ==
    /\ last_drained = "Panic"
    /\ command_queue = <<>>
    /\ \E i \in Transducers : output[i] # Zero
    /\ \E i, j \in Transducers : output[i] # output[j]

(* C5: when an MpeUpdate{channel, mpe} is drained, every active voice that *)
(* a NoteOn on that channel started has its mpe replaced by the command's, *)
(* and the voices of other channels keep theirs.                           *)
C5_MpeUpdateDelivered ==
    [][Drains("MpeUpdate") =>
        LET upd == Head(command_queue).cmd
        IN /\ \A i \in WaveActive :
                wave_pool.stimuli[i].mpe' =
                    IF wave_owner[i].channel = upd.channel THEN upd.mpe
                    ELSE wave_pool.stimuli[i].mpe
           /\ \A i \in StandingActive :
                standing_pool.stimuli[i].mpe' =
                    IF standing_owner[i].channel = upd.channel THEN upd.mpe
                    ELSE standing_pool.stimuli[i].mpe]_vars

(* C6: draining a NoteOn with velocity < 64 leaves the standing pool       *)
(* unchanged and, if the propagating pool had a free slot, makes exactly   *)
(* one more propagating slot active with its voice in Attack; a NoteOn     *)
(* with velocity >= 64 does the same with the pools exchanged.             *)
OneMoreActive(pool, pool2) ==
    \/ /\ \A i \in DOMAIN pool.active_mask : pool.active_mask[i]
       /\ pool2.active_mask = pool.active_mask
    \/ \E i \in DOMAIN pool.active_mask :
        /\ ~pool.active_mask[i]
        /\ pool2.active_mask = [pool.active_mask EXCEPT ![i] = TRUE]
        /\ pool2.stimuli[i].env_state = "Attack"
        /\ \A j \in (DOMAIN pool.active_mask) \ {i} : pool2.stimuli[j] = pool.stimuli[j]

C6_VelocityRouting ==
    [][Drains("NoteOn") =>
        IF Head(command_queue).cmd.velocity < 64
        THEN standing_pool' = standing_pool /\ OneMoreActive(wave_pool, wave_pool')
        ELSE wave_pool' = wave_pool /\ OneMoreActive(standing_pool, standing_pool')]_vars

\* a low-velocity NoteOn was just drained into slot 0 of the propagating
\* pool while a standing voice, started in an earlier call, is sounding
C6_Witness ==
    /\ last_drained = "NoteOn"
    /\ wave_pool.active_mask[0]
    /\ wave_pool.stimuli[0].env_state = "Attack"
    /\ wave_pool.stimuli[0].env_time = 0
    /\ standing_pool.active_mask[0]
    /\ standing_pool.stimuli[0].env_time > 0

(* C7: at most 8 propagating and 4 standing slots are ever active, and     *)
(* draining a NoteOn whose pool has all its slots active leaves every      *)
(* slot's occupancy bit and every voice's state unchanged.                 *)
C7_NoSteal ==
    [][/\ Cardinality(WaveActive') <= 8
       /\ Cardinality(StandingActive') <= 4
       /\ (Drains("NoteOn") /\
            (IF Head(command_queue).cmd.velocity < 64
             THEN WaveActive = WaveSlots ELSE StandingActive = StandingSlots))
          => (wave_pool' = wave_pool /\ standing_pool' = standing_pool)]_vars

\* the ninth low-velocity NoteOn has been drained with all 8 propagating
\* slots active, some of them already past their first frame
C7_Witness ==
    /\ last_drained = "NoteOn"
    /\ command_queue = <<>>
    /\ notes_sent = 9
    /\ WaveActive = WaveSlots
    /\ wave_pool.stimuli[0].env_time > 0

(* C8: one process call finishes its command handling even when producers  *)
(* keep enqueuing while it runs: a call that has begun returns.            *)
C8_DrainTerminates == (pc = "process") ~> (pc = "idle")

(* C9: the number of queued, undrained commands never exceeds the bridge's *)
(* capacity; 256 is the smallest capacity the claim allows.                *)
C9_BridgeBounded == Len(command_queue) <= 256

(* C10: the engine handles one producer's commands in the order they were  *)
(* enqueued (a drained command is never preceded in the queue by a command *)
(* of the same producer), and a NoteOn drained right after a Panic         *)
(* occupies slot 0 of the freshly reset pools.                             *)
C10_ProducerFifo ==
    [][(command_queue # <<>> /\ Len(command_queue') = Len(command_queue) - 1) =>
        \E i \in 1 .. Len(command_queue) :
            /\ command_queue' = RemoveAt(command_queue, i)
            /\ last_drained' = command_queue[i].cmd.type
            /\ \A j \in 1 .. (i - 1) : command_queue[j].src # command_queue[i].src
            /\ (last_drained = "Panic" /\ command_queue[i].cmd.type = "NoteOn")
               => IF command_queue[i].cmd.velocity < 64
                  THEN WaveActive' = {0} /\ StandingActive' = {}
                       /\ wave_pool.stimuli[0].env_state' = "Attack"
                  ELSE StandingActive' = {0} /\ WaveActive' = {}
                       /\ standing_pool.stimuli[0].env_state' = "Attack"]_vars

\* a Panic and then a NoteOn of the same producer are queued while a voice
\* is sounding
C10_Witness ==
    /\ Len(command_queue) = 2
    /\ command_queue[1].cmd.type = "Panic"
    /\ command_queue[2].cmd.type = "NoteOn"
    /\ command_queue[1].src = command_queue[2].src
    /\ StandingActive # {}

(* C11: no process call performs a heap allocation, whatever command it    *)
(* drains: every turn of the drain loop makes zero Box allocations.        *)
C11_NoAllocation ==
    [][(pc = "process" /\ command_queue # <<>>
            /\ Len(command_queue') = Len(command_queue) - 1)
        => DrainAllocs(Dequeue(command_queue).entry.cmd) = 0]_vars

(* C12: in every reachable engine state and for every slot of each pool,   *)
(* the occupancy bit is set if and only if the slot's voice has been       *)
(* allocated and its envelope state is not Idle.                           *)
C12_MaskIffSounding ==
    /\ \A i \in WaveSlots :
         wave_pool.active_mask[i] <=>
            (wave_owner[i] # NoOwner /\ wave_pool.stimuli[i].env_state # "Idle")
    /\ \A i \in StandingSlots :
         standing_pool.active_mask[i] <=>
            (standing_owner[i] # NoOwner /\ standing_pool.stimuli[i].env_state # "Idle")

\* between two process calls, a sustained standing voice and an attacking
\* propagating voice occupy their slots next to free ones
C12_Witness ==
    /\ pc = "idle"
    /\ standing_pool.active_mask[0] /\ standing_pool.stimuli[0].env_state = "Sustain"
    /\ wave_pool.active_mask[0] /\ wave_pool.stimuli[0].env_state = "Attack"
    /\ ~wave_pool.active_mask[1] /\ ~standing_pool.active_mask[1]

\* an occupancy bit goes from clear to set only in the allocate of a drained
\* NoteOn, at the first free slot of the pool the velocity selects
SetOnlyByAllocate ==
    /\ \A i \in WaveSlots :
         (~wave_pool.active_mask[i] /\ wave_pool.active_mask'[i])
         => /\ Drains("NoteOn")
            /\ Head(command_queue).cmd.velocity < 64
            /\ i = FirstFree(wave_pool.active_mask)
    /\ \A i \in StandingSlots :
         (~standing_pool.active_mask[i] /\ standing_pool.active_mask'[i])
         => /\ Drains("NoteOn")
            /\ Head(command_queue).cmd.velocity >= 64
            /\ i = FirstFree(standing_pool.active_mask)

\* the occupancy bits that go from set to clear in the step
WaveCleared == {i \in WaveSlots : wave_pool.active_mask[i] /\ ~wave_pool.active_mask'[i]}
StandingCleared ==
    {i \in StandingSlots : standing_pool.active_mask[i] /\ ~standing_pool.active_mask'[i]}

\* the bits cleared are those of voices process_all found Idle
ClearedByProcessAll ==
    /\ Renders
    /\ \A i \in WaveCleared : wave_pool.stimuli[i].env_state = "Idle"
    /\ \A i \in StandingCleared : standing_pool.stimuli[i].env_state = "Idle"

(* C13 as stated: an occupancy bit changes from false to true only inside  *)
(* allocate, and from true to false only inside process_all at a slot      *)
(* whose voice reported is_active() == false.                              *)
C13_OccupancyMonotone ==
    [][/\ SetOnlyByAllocate
       /\ (WaveCleared # {} \/ StandingCleared # {}) => ClearedByProcessAll]_vars

(* C13 amended: an occupancy bit changes from false to true only inside    *)
(* allocate, and from true to false only inside process_all at a slot      *)
(* whose voice reported is_active() == false, or when a Panic is drained,  *)
(* which replaces both pools by new ones.                                  *)
C13_OccupancyMonotoneOrPanic ==
    [][/\ SetOnlyByAllocate
       /\ (WaveCleared # {} \/ StandingCleared # {})
          => (ClearedByProcessAll \/ Drains("Panic"))]_vars

\* a Panic has just cleared the pools in a call that had first allocated a
\* voice, after an earlier call's voice had sounded
C13_Witness ==
    /\ last_drained = "Panic"
    /\ pc = "process"
    /\ AllIdle
    /\ notes_sent = 2
    /\ \E i \in Transducers : output[i] # Zero

\* no voice has been allocated since construction or the last Panic
NoNoteSince ==
    /\ \A i \in WaveSlots : wave_owner[i] = NoOwner
    /\ \A i \in StandingSlots : standing_owner[i] = NoOwner

(* C14: as long as no NoteOn has been drained since construction or since  *)
(* the last Panic, all slots of both pools are inactive and every process  *)
(* call outputs 32 zeros.                                                  *)
C14_SilenceAtRest ==
    [][/\ NoNoteSince' => (WaveActive' = {} /\ StandingActive' = {})
       /\ (Renders /\ NoNoteSince)
          => (WaveActive = {} /\ StandingActive = {} /\ output' = SilentFrame)]_vars

\* a call that drained nothing but a Panic is about to render, and the
\* frame of the call before it was sounding
C14_Witness ==
    /\ pc = "process"
    /\ command_queue = <<>>
    /\ last_drained = "Panic"
    /\ NoNoteSince
    /\ notes_sent = 1
    /\ \E i \in Transducers : output[i] # Zero

(* C15: whenever no propagating-pool voice is active, the 32 values of the *)
(* frame a process call outputs are identical to each other.               *)
C15_StandingUniform ==
    [][(Renders /\ WaveActive = {}) =>
        \A i, j \in Transducers : output'[i] = output'[j]]_vars

\* a call has returned a sounding frame with two standing voices active and
\* no propagating voice allocated since the last Panic
C15_Witness ==
    /\ pc = "idle"
    /\ WaveActive = {}
    /\ \A i \in WaveSlots : wave_owner[i] = NoOwner
    /\ Cardinality(StandingActive) = 2
    /\ output[0].fin /\ output[0] # Zero

\* the engine commands the bridge holds from client c, oldest first
Delivered(queue, c) ==
    LET mine == SelectSeq(queue, LAMBDA e : e.src = c)
    IN [i \in 1 .. Len(mine) |-> mine[i].cmd]

\* the engine commands client c's writes stand for, in the order written
Written(c) == [i \in 1 .. Len(conn[c].written) |-> ToEngine(conn[c].written[i])]

(* C16: every command a connected client writes is delivered to the        *)
(* command bridge exactly once, however the byte stream is chunked between *)
(* server reads: once the server has read all a connected client wrote,    *)
(* the bridge holds exactly the commands written, in order.                *)
C16_ExactlyOnce ==
    \A c \in ClientIds :
        (c \in Listed /\ ~conn[c].fault /\ conn[c].stream = <<>>)
        => Delivered(command_queue, c) = Written(c)

\* the read returned end-of-stream or an error other than WouldBlock
ReadFailed(r) == r.kind = "Err" \/ (r.kind = "Ok" /\ r.units = <<>>)

\* the read returned units that do not decode
ReadMalformed(r) == r.kind = "Ok" /\ r.units # <<>> /\ ~Deserialize(r.units).ok

\* the step is a turn of the listen loop that accepted, removed, read or
\* delivered something
Iterates ==
    /\ ipc_pc = "loop" /\ running
    /\ clients' # clients \/ command_queue' # command_queue \/ last_read' # last_read

(* C17: in a turn of the IPC loop, a client is removed from the client     *)
(* list exactly when its read returned end-of-stream or an error other     *)
(* than WouldBlock; a client whose read was malformed stays and nothing of *)
(* it is enqueued; the clients kept stay in their order, a newly accepted  *)
(* one last, and the loop keeps running.                                   *)
C17_ClientIsolation ==
    [][Iterates =>
        /\ ipc_pc' = "loop"
        /\ \A c \in Listed \cup Pending :
             /\ ReadFailed(last_read'[c]) => c \notin {clients'[i] : i \in 1 .. Len(clients')}
             /\ ReadMalformed(last_read'[c])
                => Delivered(command_queue', c) = Delivered(command_queue, c)
        /\ \E a \in Accepted :
             clients' = SelectSeq(IF a = 0 THEN clients ELSE Append(clients, a),
                                  LAMBDA c : ~ReadFailed(last_read'[c]))]_vars

\* one turn of the loop found the first client's connection broken and
\* read an undecodable piece from the second, which is still listed
C17_Witness ==
    /\ last_read[1].kind = "Err"
    /\ ReadMalformed(last_read[2])
    /\ clients = <<2>>
    /\ conn[1].state = "dropped"

C19_NonFiniteZeroed ==
    [][Renders =>
        \E frame \in {Force(SummedFrame)} :
            \A i \in Transducers : ~frame[i].fin => output'[i] = Zero]_vars

(* C20: for every voice under any interleaving of note_on, note_off and   *)
(* process calls: while the envelope state is Attack, env_level never      *)
(* decreases from one process call to the next; from the moment the state  *)
(* becomes Release (including entry by note_off from Attack with env_level *)
(* below 1) until it becomes Idle, env_level never increases.              *)
C20_EnvelopeMonotone ==
    [][\A kind \in Kinds :
        /\ (Voice(kind).env_state = "Attack" /\ Voice(kind).env_state' = "Attack")
           => FLe(Voice(kind).env_level, Voice(kind).env_level')
        /\ (Voice(kind).env_state = "Release"
                /\ Voice(kind).env_state' \in {"Release", "Idle"})
           => FLe(Voice(kind).env_level', Voice(kind).env_level)]_vars

\* the envelope edge from state a with a voice that becomes b is one of the
\* edges of the envelope's state machine, taken by the step that owns it
EnvelopeEdge(a, b) ==
    \/ a.env_state = b.env_state
    \/ a.env_state = "Idle" /\ b.env_state = "Attack" /\ Drains("NoteOn")
    \/ a.env_state = "Attack" /\ b.env_state = "Sustain" /\ Renders
            /\ FLe(One, b.env_level)
    \/ a.env_state \in {"Attack", "Sustain"} /\ b.env_state = "Release"
            /\ Drains("NoteOff")
    \/ a.env_state = "Release" /\ b.env_state = "Idle" /\ Renders
            /\ FLe(b.env_level, Zero)
    \/ b.env_state = "Idle" /\ Drains("Panic")

(* C21: under any sequence of engine commands and process calls the       *)
(* envelope state of every voice of both pools changes only along          *)
(* Idle -> Attack (note_on of a drained NoteOn), Attack -> Sustain (a      *)
(* process call in which the level reached 1), Attack -> Release and       *)
(* Sustain -> Release (note_off), Release -> Idle (a process call in which *)
(* the level reached 0) and any state -> Idle (the reset of a Panic). No   *)
(* voice goes from Sustain or Release back to Attack, and a NoteOff leaves *)
(* an Idle voice Idle.                                                     *)
C21_EnvelopeEdges ==
    [][/\ \A i \in WaveSlots :
            EnvelopeEdge(wave_pool.stimuli[i], wave_pool.stimuli[i]')
       /\ \A i \in StandingSlots :
            EnvelopeEdge(standing_pool.stimuli[i], standing_pool.stimuli[i]')]_vars

\* a standing voice has finished its attack while a propagating voice is
\* still in its own, and a NoteOff has been drained in between
C21_Witness ==
    /\ \E i \in StandingSlots : standing_pool.stimuli[i].env_state = "Sustain"
    /\ \E i \in WaveSlots : wave_pool.stimuli[i].env_state = "Attack"
    /\ last_drained = "NoteOff"

(* C22: after every process call the phase of every voice satisfies        *)
(* 0 <= phase < 1 (here 0 <= phase < PhaseDen, in units of 1/PhaseDen),    *)
(* for every MIDI note and every positive sample rate, by the single       *)
(* conditional subtraction of 1.                                           *)
C22_PhaseInUnitInterval ==
    \A kind \in Kinds : 0 <= Voice(kind).phase /\ Voice(kind).phase < PhaseDen

(* C24: every voice handed out by allocate has all 32 delay buffers zero,  *)
(* all write cursors 0, phase 0, env_level 0 and env_time 0 when allocate  *)
(* returns it, whatever history of notes the slot has had. (A buffer holds *)
(* zero at every index outside its DOMAIN.)                                *)
C24_AllocatedVoiceIsClean ==
    [][(~wave_pool.active_mask[0] /\ wave_pool'.active_mask[0])
        => /\ \A i \in Transducers :
                /\ \A j \in DOMAIN wave_pool'.stimuli[0].delay_lines[i].buffer :
                      BufferAt(wave_pool'.stimuli[0].delay_lines[i].buffer, j) = Zero
                /\ wave_pool'.stimuli[0].delay_lines[i].write_pos = Zero
           /\ wave_pool'.stimuli[0].phase = 0
           /\ wave_pool'.stimuli[0].env_level = Zero
           /\ wave_pool'.stimuli[0].env_time = 0]_vars

\* the slot has been handed out after a note that left samples on the
\* output, and has been started again on clean delay lines
C24_Witness ==
    /\ wave_pool.active_mask[0]
    /\ notes_sent = 2
    /\ \E i \in Transducers : output[i] # Zero
    /\ wave_pool.stimuli[0].env_state = "Attack"
    /\ \A i \in Transducers :
          wave_pool.stimuli[0].delay_lines[i] = DelayLineNew

(* C23: on a freshly reset delay line, for every whole delay k with        *)
(* 0 <= k < buffer size, feeding the impulse 1, 0, 0, ... through          *)
(* write_and_read(x, k) returns 0 on each of the first k calls and 1 on    *)
(* call k + 1; with k = 0 the first call returns its input.                *)
C23_DelayRoundTrip ==
    \A d \in run.delays :
        (/\ run.delays = {d}
         /\ d.fin /\ d.v >= 0 /\ FFract(d) = Zero
         /\ AsUsize(d) < MAX_DELAY_SAMPLES
         /\ notes_sent \in 1 .. (AsUsize(d) + 1))
        => output[0] = IF notes_sent = AsUsize(d) + 1 THEN One ELSE Zero

\* the impulse has come back after the longest delay the buffer holds
C23_Witness ==
    /\ run.delays = {AsF32(MAX_DELAY_SAMPLES - 1)}
    /\ notes_sent = MAX_DELAY_SAMPLES
    /\ output[0] = One

(* C29: for any sequence of write_and_read and reset calls with any        *)
(* non-negative delay_samples, including delays of the buffer size or      *)
(* more, the write index and both read indices of the next call lie in     *)
(* 0 .. 4799, and write_pos is a whole number in [0, 4800).                *)
C29_DelayIndexSafety ==
    \E line \in {wave_pool.stimuli[0].delay_lines[0]} :
        /\ line.write_pos.fin /\ FFract(line.write_pos) = Zero
        /\ FLe(Zero, line.write_pos) /\ FLt(line.write_pos, AsF32(MAX_DELAY_SAMPLES))
        /\ AsUsize(line.write_pos) \in 0 .. (MAX_DELAY_SAMPLES - 1)
        /\ DOMAIN line.buffer \subseteq 0 .. (MAX_DELAY_SAMPLES - 1)
        /\ \A delay_samples \in run.delays :
             \E rp \in {FSub(line.write_pos, delay_samples)} :
             \E read_pos \in {IF FLt(rp, Zero) THEN FAdd(rp, AsF32(line.size)) ELSE rp} :
             \E idx0 \in {AsUsizeMod(FFloor(read_pos), line.size)} :
                /\ idx0 \in 0 .. (MAX_DELAY_SAMPLES - 1)
                /\ (idx0 + 1) % line.size \in 0 .. (MAX_DELAY_SAMPLES - 1)

\* the write cursor has gone once round the buffer under mixed delays
C29_Witness ==
    /\ run.delays = MixedDelays
    /\ notes_sent = MAX_DELAY_SAMPLES + 1
    /\ wave_pool.stimuli[0].delay_lines[0].write_pos = One

(* C25: the wave speed of every active propagating voice equals            *)
(* 20 + (velocity / 127) * 480 for the velocity of the NoteOn that         *)
(* allocated it, at every process call: it is set so when the NoteOn is    *)
(* drained and no later step changes it while the slot stays occupied. No  *)
(* other command does: a SetWaveSpeed command handed to a producer is      *)
(* never enqueued.                                                         *)
C25_WaveSpeedFromVelocity ==
    [][/\ \A i \in WaveSlots :
            /\ (~wave_pool.active_mask[i] /\ wave_pool'.active_mask[i])
               => /\ Drains("NoteOn")
                  /\ wave_pool'.stimuli[i].wave_speed =
                       FAdd(AsF32(20),
                            FMul(FDiv(AsF32(Head(command_queue).cmd.velocity), AsF32(127)),
                                 AsF32(480)))
            /\ (wave_pool.active_mask[i] /\ wave_pool'.active_mask[i])
               => wave_pool'.stimuli[i].wave_speed = wave_pool.stimuli[i].wave_speed
       /\ \A j \in 1 .. Len(command_queue') :
            command_queue'[j].cmd.type # "SetWaveSpeed"]_vars

\* a propagating voice allocated at velocity 63 has been through a process
\* call and an MpeUpdate has just been drained
C25_Witness ==
    /\ last_drained = "MpeUpdate"
    /\ wave_pool.active_mask[0]
    /\ wave_pool.stimuli[0].delay_lines[0].write_pos # Zero
    /\ wave_pool.stimuli[0].wave_speed = WaveSpeedOf(63)
    /\ WaveSpeedOf(63).v = 20 * Scale + Quot(Quot(63 * Scale * Scale, 127 * Scale) * 480 * Scale, Scale)

(* C26: the frame the callback writes to a device buffer of C channels     *)
(* holds the engine's output[ch] of that frame for every ch < min(C, 32)   *)
(* and 0 for every ch with 32 <= ch < C; when C < 32 the outputs of        *)
(* transducers C .. 31 are discarded and a warning has been emitted once.  *)
(* (data is empty until the callback has written its first frame.)         *)
C26_Interleaving ==
    data # EmptyBuffer
    => /\ DOMAIN data = 0 .. (run.channels - 1)
       /\ \A ch \in DOMAIN data :
             data[ch] = IF ch < 32 THEN output[ch] ELSE Zero
       /\ run.channels < 32 => run.warnings = 1

(* C27: the engine is exclusive to the audio thread: no thread other than  *)
(* the audio callback ever holds the engine mutex, so the mutex is free    *)
(* whenever a frame begins and the callback's try_lock succeeds, process   *)
(* runs once per frame and releases the mutex when it returns, and no      *)
(* frame is written to the device without process having run.              *)
C27_EngineExclusive ==
    [][/\ engine_lock' \in {"none", "audio"}
       /\ pc = "idle" => engine_lock = "none"
       /\ pc = "process" => engine_lock = "audio"
       /\ Renders => engine_lock' = "none"
       /\ (pc = "idle" /\ pc' = "idle") => UNCHANGED <<output, data>>]_vars

\* the producer has sent a command while the callback, which has written a
\* frame before, is inside process with the mutex held
C27_Witness ==
    /\ engine_lock = "audio"
    /\ command_queue # <<>>
    /\ last_drained # "None"
    /\ data # EmptyBuffer

(* C30: no command accepted by the bridge is lost or duplicated. Every     *)
(* step leaves the channel alone, or appends exactly the command one       *)
(* producer sent behind everything already queued, or removes exactly the  *)
(* oldest entry, inside a process call, which handles it; and, process     *)
(* being called again and again, every queued command is handled: either   *)
(* the channel ends up empty for good or entries keep being removed,       *)
(* however many accumulate and however the producers interleave.           *)
C30_NoLossNoDuplication ==
    /\ [][\/ command_queue' = command_queue
          \/ \E p \in run.producers, cmd \in run.commands :
                command_queue' = Append(command_queue, [cmd |-> cmd, src |-> p])
          \/ /\ command_queue # <<>>
             /\ command_queue' = Tail(command_queue)
             /\ pc = "process" /\ pc' = "process"
             /\ last_drained' = Head(command_queue).cmd.type]_vars
    /\ \/ <>[](command_queue = <<>>)
       \/ []<><<Len(command_queue') < Len(command_queue)>>_vars

\* commands of both producers have accumulated behind each other while the
\* audio thread is in the middle of a drain
C30_Witness ==
    /\ Len(command_queue) = MaxBacklog
    /\ \E i, j \in 1 .. Len(command_queue) :
          i < j /\ command_queue[i].src = "engine" /\ command_queue[j].src = "ipc"
    /\ pc = "process"
    /\ last_drained = "Panic"

\* every slot of the pool a NoteOn of this velocity routes to is occupied
PoolFull(velocity) ==
    IF RoutesToWave(velocity) THEN WaveActive = WaveSlots
    ELSE StandingActive = StandingSlots

(* C28: in the engine as written, between two Panics the number of active  *)
(* slots of each pool never decreases: in every step that is not the drain *)
(* of a Panic, whatever NoteOn, NoteOff or MpeUpdate is drained or         *)
(* whatever process renders, an active slot stays active, and the voice of *)
(* every active slot is in Attack or Sustain, never Release; so once the   *)
(* 8 (or 4) slots of a pool are taken, every further NoteOn for that pool  *)
(* is dropped, leaving both pools as they were.                            *)
C28_SlotsNeverRetire ==
    [][~Drains("Panic")
       => /\ WaveActive \subseteq {i \in WaveSlots : wave_pool'.active_mask[i]}
          /\ StandingActive \subseteq {i \in StandingSlots : standing_pool'.active_mask[i]}
          /\ \A i \in WaveSlots : wave_pool'.active_mask[i]
                => wave_pool'.stimuli[i].env_state \in {"Attack", "Sustain"}
          /\ \A i \in StandingSlots : standing_pool'.active_mask[i]
                => standing_pool'.stimuli[i].env_state \in {"Attack", "Sustain"}
          /\ (Drains("NoteOn") /\ PoolFull(Head(command_queue).cmd.velocity))
                => UNCHANGED <<wave_pool, standing_pool>>]_vars

\* the fifth high-velocity NoteOn has just been drained with all four
\* standing slots taken, after a NoteOff for their note was drained and a
\* frame rendered
C28_Witness ==
    /\ last_drained = "NoteOn"
    /\ notes_sent = MAX_STANDING_STIMULI + 1
    /\ command_queue = <<>>
    /\ StandingActive = StandingSlots
    /\ \A i \in StandingSlots : standing_off[i]
    /\ data # EmptyBuffer

====
